---- MODULE Spec2Model ----
(***************************************************************************)
(* A model of app.py, the Flask front end of the covered-calls bot: the    *)
(* process-wide Robinhood login flag, the /api/status, /api/login and      *)
(* /api/logout handlers, /api/quote/<symbol>, /api/options/<symbol> and    *)
(* the provider fallback of /api/yahoo/options/<symbol> (Robinhood first,  *)
(* then yfinance).                                                         *)
(*                                                                         *)
(* Spec handles one HTTP request at a time.  The session handlers and      *)
(* get_quote are one action each; get_options and yahoo_options are split  *)
(* at their provider calls, so that each call's outcome (a raise, an empty *)
(* reply, a reply) is drawn when the call is made.  The provider libraries *)
(* are the environment: every outcome they can produce is a                *)
(* nondeterministic choice.  FairSpec adds that a request in flight keeps  *)
(* running; SpecConc serves login, logout and yahoo_options side by side.  *)
(***************************************************************************)
EXTENDS Integers, Sequences, FiniteSets, TLC

(***************************************************************************)
(* Bounds of the model.                                                    *)
(***************************************************************************)
\* longest expiration list whose days are tried in every order
MaxExp == 2
\* most contract rows the providers return during one request
MaxRows == 1
\* most contracts find_options_by_expiration returns during one
\* /api/options request
MaxOpts == 2

(***************************************************************************)
(* Program constants.                                                      *)
(***************************************************************************)
\* `if dte < 20 or dte > 60: continue`
MinDte == 20
MaxDte == 60
\* seconds per day: datetime.timestamp() of a date's midnight
DaySecs == 86400

(***************************************************************************)
(* Python values.  A value is a record [k, v]: None, a number, the float   *)
(* NaN, or a decimal string (Robinhood sends its numbers as strings).      *)
(***************************************************************************)
None == [k |-> "none", v |-> 0]
NaN == [k |-> "nan", v |-> 0]
Num(n) == [k |-> "num", v |-> n]
Str(n) == [k |-> "str", v |-> n]

\* bool(x): None, 0 and 0.0 are falsy; NaN and a non-empty string are truthy
Truthy(x) ==
    CASE x.k = "none" -> FALSE
      [] x.k = "num" -> x.v # 0
      [] x.k = "nan" -> TRUE
      [] x.k = "str" -> TRUE

\* `x or 0`
OrZero(x) == IF Truthy(x) THEN x ELSE Num(0)

\* the result of a conversion: a value, or a raised exception
Ok(x) == [ok |-> TRUE, val |-> x]
Raised == [ok |-> FALSE, val |-> None]

\* float(x): parses a decimal string, keeps NaN, raises TypeError on None
PyFloat(x) ==
    CASE x.k = "none" -> Raised
      [] x.k = "num" -> Ok(x)
      [] x.k = "nan" -> Ok(NaN)
      [] x.k = "str" -> Ok(Num(x.v))

\* int(x) of a float: raises ValueError on NaN, TypeError on None
PyInt(x) ==
    CASE x.k = "none" -> Raised
      [] x.k = "num" -> Ok(x)
      [] x.k = "nan" -> Raised
      [] x.k = "str" -> Ok(Num(x.v))

\* abs(x) of a float
PyAbs(x) == IF x.k = "num" /\ x.v < 0 THEN Num(0 - x.v) ELSE x

(***************************************************************************)
(* Dates.  A "%Y-%m-%d" string is modelled by the ordinal of its day;      *)
(* a datetime by its seconds since the epoch (local time throughout).      *)
(***************************************************************************)
\* datetime.now().date()
DateOf(t) == t \div DaySecs
\* int(datetime.strptime(exp_str, "%Y-%m-%d").timestamp()): midnight of the day
TimestampOf(d) == d * DaySecs
\* (exp_date - today).days
Dte(d, today) == d - today
\* the window with its lower bound exclusive
InWindowExclusive(d, today) == ~(Dte(d, today) <= MinDte \/ Dte(d, today) > MaxDte)

\* `if dte < 20 or dte > 60: continue`
InWindow(d, today) == ~(Dte(d, today) < MinDte \/ Dte(d, today) > MaxDte)

(***************************************************************************)
(* The environment: what the provider libraries can answer.                *)
(***************************************************************************)
Providers == {"robinhood", "yfinance"}

\* request times: midnight and noon of one day
Nows == {100 * DaySecs, 100 * DaySecs + 43200}
\* expiration days a provider may publish: 19, 20, 60 and 61 days ahead
ExpDays == {119, 120, 160, 161}

\* the sequences over S of length at most n
SeqsUpTo(S, n) == UNION {[1..m -> S] : m \in 0..n}

\* a provider with many series in the window: nine of them, 20 to 60 days ahead
ManySeries == [i \in 1..9 |-> 115 + 5 * i]

ExpLists == SeqsUpTo(ExpDays, MaxExp) \cup {ManySeries}

\* r.stocks.get_latest_price(symbol): a list of decimal strings or None
RhPriceReplies == {<<>>, <<None>>, <<Str(0)>>, <<Str(150)>>}
\* ticker.fast_info.last_price: nothing, a price, or a float that is no price
YfPriceReplies == {None, Num(151), Num(0), NaN}

\* r.options.get_chains(symbol): None, or a dict with "expiration_dates"
ChainsReplies ==
    {[k |-> "none", dates |-> <<>>]} \cup {[k |-> "dict", dates |-> E] : E \in ExpLists}

\* the market-data dict of one Robinhood contract
MdFields == {"bid_price", "ask_price", "volume", "open_interest", "implied_volatility"}
GoodMd == [f \in MdFields |-> Str(5)]
MdDicts == {GoodMd} \cup {[GoodMd EXCEPT ![f] = None] : f \in MdFields}
\* r.options.get_option_market_data(...): raises, an empty reply, or [dict]
MdReplies ==
    {[k |-> "raise", d |-> GoodMd], [k |-> "empty", d |-> GoodMd]}
        \cup {[k |-> "dict", d |-> d] : d \in MdDicts}
\* one element of r.options.find_options_by_expiration(...) with the market
\* data its contract would get; no market data is asked without a strike
RhRows ==
    {[strike_price |-> None, md |-> [k |-> "empty", d |-> GoodMd]]}
        \cup {[strike_price |-> Str(100), md |-> m] : m \in MdReplies}

\* one row of ticker.option_chain(exp_str).calls
YfFields == {"bid", "ask", "volume", "openInterest", "impliedVolatility"}
GoodRow == [f \in YfFields \cup {"strike"} |-> Num(5)]
YfRows ==
    {GoodRow} \cup {[GoodRow EXCEPT ![f] = x] : f \in YfFields, x \in {None, NaN}}

\* expiration days get_chains may publish to /api/options: 29, 30, 45 and
\* 46 days ahead
OptExpDays == {129, 130, 145, 146}
OptChainsReplies ==
    {[k |-> "none", dates |-> <<>>]}
        \cup {[k |-> "dict", dates |-> E] : E \in SeqsUpTo(OptExpDays, MaxExp)}
\* the query string of /api/options: the defaults, or a one-point band
\* (deltas in hundredths)
DefaultArgs == [min_dte |-> 30, max_dte |-> 45, min_delta |-> 10, max_delta |-> 30]
ArgsSets ==
    {DefaultArgs, [min_dte |-> 45, max_dte |-> 45, min_delta |-> 31, max_delta |-> 31]}
\* the market-data dict of one contract as /api/options reads it
OptMdFields == {"delta", "bid_price", "ask_price", "open_interest", "volume"}
GoodOptMd == [f \in OptMdFields |-> IF f = "delta" THEN Str(10) ELSE Str(5)]
DeltaVals == {None, Str(9), Str(10), Str(-30), Str(31)}
OptMdDicts == {[GoodOptMd EXCEPT !["delta"] = x] : x \in DeltaVals}
\* r.options.get_option_market_data(...): raises, [], [[]], [[dict]] or [dict]
OptMdReplies ==
    {[k |-> x, d |-> GoodOptMd] : x \in {"raise", "empty", "nested_empty", "nested"}}
        \cup {[k |-> "dict", d |-> d] : d \in OptMdDicts}
\* one element of find_options_by_expiration(...) with the market data its
\* contract would get
OptRows ==
    {[strike_price |-> None, md |-> [k |-> "empty", d |-> GoodOptMd]]}
        \cup {[strike_price |-> Str(105), md |-> m] : m \in OptMdReplies}
        \cup {[strike_price |-> Str(100), md |-> [k |-> "dict", d |-> GoodOptMd]]}

(***************************************************************************)
(* Contract normalisation.                                                 *)
(***************************************************************************)
\* lines 226-235: the dict appended to call_list, or a raise
RhContract(opt, exp_ts) ==
    LET md == opt.md.d
        strike == PyFloat(opt.strike_price)
        fiv == PyFloat(OrZero(md["implied_volatility"]))
        bid == PyFloat(OrZero(md["bid_price"]))
        ask == PyFloat(OrZero(md["ask_price"]))
        fvol == PyFloat(OrZero(md["volume"]))
        foi == PyFloat(OrZero(md["open_interest"]))
        vol == IF fvol.ok THEN PyInt(fvol.val) ELSE Raised
        oi == IF foi.ok THEN PyInt(foi.val) ELSE Raised
    IN  IF strike.ok /\ fiv.ok /\ bid.ok /\ ask.ok /\ vol.ok /\ oi.ok
        THEN Ok([strike |-> strike.val, bid |-> bid.val, ask |-> ask.val,
                 volume |-> vol.val, openInterest |-> oi.val,
                 impliedVolatility |-> PyAbs(fiv.val), expiration |-> exp_ts])
        ELSE Raised

\* lines 215-237: the contracts of one expiration; a contract without a
\* strike, without market data, or whose conversion raises is skipped
RECURSIVE RhCallList(_, _)
RhCallList(opts, exp_ts) ==
    IF opts = <<>> THEN <<>>
    ELSE LET opt == Head(opts)
             c == RhContract(opt, exp_ts)
             rest == RhCallList(Tail(opts), exp_ts)
         IN  IF ~Truthy(opt.strike_price) THEN rest
             ELSE IF opt.md.k # "dict" THEN rest
             ELSE IF ~c.ok THEN rest
             ELSE <<c.val>> \o rest

\* lines 275-283: the dict appended to call_list, or a raise
YfContract(row, exp_ts) ==
    LET strike == PyFloat(row["strike"])
        bid == PyFloat(OrZero(row["bid"]))
        ask == PyFloat(OrZero(row["ask"]))
        vol == PyInt(OrZero(row["volume"]))
        oi == PyInt(OrZero(row["openInterest"]))
        iv == PyFloat(OrZero(row["impliedVolatility"]))
    IN  IF strike.ok /\ bid.ok /\ ask.ok /\ vol.ok /\ oi.ok /\ iv.ok
        THEN Ok([strike |-> strike.val, bid |-> bid.val, ask |-> ask.val,
                 volume |-> vol.val, openInterest |-> oi.val,
                 impliedVolatility |-> iv.val, expiration |-> exp_ts])
        ELSE Raised

\* lines 273-283: the contracts of one expiration; a raise in any row
\* leaves the loop (there is no try around it)
RECURSIVE YfCallList(_, _)
YfCallList(rows, exp_ts) ==
    IF rows = <<>> THEN Ok(<<>>)
    ELSE LET c == YfContract(Head(rows), exp_ts)
             rest == YfCallList(Tail(rows), exp_ts)
         IN  IF c.ok /\ rest.ok THEN [ok |-> TRUE, val |-> <<c.val>> \o rest.val]
             ELSE [ok |-> FALSE, val |-> <<>>]

(***************************************************************************)
(* /api/options: the DTE filter, the delta band and the final sort.        *)
(***************************************************************************)
\* lines 110-119
ValidDates(expiration_dates, today_, a) ==
    SelectSeq(expiration_dates,
              LAMBDA d : today_ + a.min_dte <= d /\ d <= today_ + a.max_dte)

\* the band without its lower bound
InDeltaBandUpperOnly(delta_val, a) ==
    delta_val.k = "num" /\ delta_val.v <= a.max_delta

\* line 153: `min_delta <= delta_val <= max_delta`, false of a NaN
InDeltaBand(delta_val, a) ==
    delta_val.k = "num" /\ a.min_delta <= delta_val.v /\ delta_val.v <= a.max_delta

\* lines 142-149: md.get("delta") of market_data[0], unwrapped if nested
DeltaOf(md) == IF md.k = "nested_empty" THEN None ELSE md.d["delta"]

\* lines 132-174: what one contract adds to `options`: nothing when it has
\* no strike, no market data, no delta, a delta outside the band, or when a
\* conversion raises
OptContract(opt, exp_date, today_, a) ==
    LET md == opt.md
        d == IF md.k = "nested_empty" THEN [f \in OptMdFields |-> None] ELSE md.d
        fdelta == PyFloat(DeltaOf(md))
        delta_val == PyAbs(fdelta.val)
        bid == PyFloat(OrZero(d["bid_price"]))
        ask == PyFloat(OrZero(d["ask_price"]))
        foi == PyFloat(OrZero(d["open_interest"]))
        fvol == PyFloat(OrZero(d["volume"]))
        oi == IF foi.ok THEN PyInt(foi.val) ELSE Raised
        vol == IF fvol.ok THEN PyInt(fvol.val) ELSE Raised
        strike == PyFloat(opt.strike_price)
    IN  IF ~Truthy(opt.strike_price) THEN <<>>
        ELSE IF md.k \in {"raise", "empty"} THEN <<>>
        ELSE IF DeltaOf(md) = None THEN <<>>
        ELSE IF ~fdelta.ok THEN <<>>
        ELSE IF ~InDeltaBand(delta_val, a) THEN <<>>
        ELSE IF ~(bid.ok /\ ask.ok /\ oi.ok /\ vol.ok /\ strike.ok) THEN <<>>
        ELSE <<[strike |-> strike.val, exp |-> exp_date,
                dte |-> Dte(exp_date, today_), delta |-> delta_val,
                bid |-> bid.val, ask |-> ask.val, oi |-> oi.val, vol |-> vol.val]>>

\* lines 131-175: the contracts one expiration adds to `options`
RECURSIVE OptContracts(_, _, _, _)
OptContracts(opts, exp_date, today_, a) ==
    IF opts = <<>> THEN <<>>
    ELSE OptContract(Head(opts), exp_date, today_, a)
             \o OptContracts(Tail(opts), exp_date, today_, a)

\* the sort key with the strike alone
SortKeyStrikeOnly(x, y) == x.strike.v <= y.strike.v

\* line 177: (x["exp"], x["strike"]) of x is not greater than that of y;
\* "%Y-%m-%d" strings compare as their days do
SortKeyLeq(x, y) == x.exp < y.exp \/ (x.exp = y.exp /\ x.strike.v <= y.strike.v)

\* list.sort(key=...): stable, ascending
RECURSIVE SortOptions(_)
SortOptions(s) ==
    IF s = <<>> THEN <<>>
    ELSE LET x == s[Len(s)]
             sorted == SortOptions(SubSeq(s, 1, Len(s) - 1))
             before == SelectSeq(sorted, LAMBDA y : SortKeyLeq(y, x))
             after == SelectSeq(sorted, LAMBDA y : ~SortKeyLeq(y, x))
         IN  before \o <<x>> \o after

(***************************************************************************)
(* State.                                                                  *)
(***************************************************************************)
VARIABLES
    r_present,       \* `r`: robin_stocks was imported (line 7)
    yf_present,      \* `yf`: yfinance was imported (line 12)
    rh_logged_in,    \* the process-wide flag (line 24)
    session,         \* the provider side: "live" from the return of r.login()
                     \* until r.logout() is next called
    login_stands,    \* a login has succeeded and no /api/logout completed since
    login_pc,        \* where a /api/login running beside other requests stands
    logout_pc,       \* where a /api/logout running beside other requests stands
    pc,              \* where the data request in flight stands
    now,             \* datetime.now() of the yahoo_options request handled last
    today,           \* line 190
    stock_price,     \* locals of yahoo_options, shared by both branches
    expirations,     \* expiration_dates (line 201) / expirations (line 261)
    idx,             \* position of the for loop in expirations
    exp_timestamps,
    all_options,
    args,            \* locals of get_options (lines 92-95, 114 and 121)
    valid_dates,
    options,
    resp,            \* the last HTTP response sent
    obs              \* what the handler running last saw its providers do

globals ==
    <<r_present, yf_present, rh_logged_in, session, login_stands, login_pc, logout_pc>>
locals == <<today, stock_price, expirations, idx, exp_timestamps, all_options>>
opt_locals == <<args, valid_dates, options>>
vars == <<globals, pc, now, locals, opt_locals, resp, obs>>

\* jsonify(...) of each handler, as one record shape
NoResp ==
    [op |-> "none", status |-> 0, success |-> FALSE, error |-> FALSE,
     logged_in |-> FALSE, source |-> "none", price |-> None, expirationDates |-> <<>>, options |-> <<>>]
\* a result that leaves the quote out when there are no options
ResultQuoteOnlyWithOptions(src, price, dates, groups) ==
    [NoResp EXCEPT !.op = "yahoo_options", !.status = 200, !.source = src,
                   !.price = IF groups = <<>> THEN None ELSE price,
                   !.expirationDates = dates, !.options = groups]

\* lines 240-250 and 286-296
Result(src, price, dates, groups) ==
    [NoResp EXCEPT !.op = "yahoo_options", !.status = 200, !.source = src,
                   !.price = price, !.expirationDates = dates, !.options = groups]
\* the error body sent without its status, which Flask answers with 200
ErrorRespDefaultStatus ==
    [NoResp EXCEPT !.op = "yahoo_options", !.status = 200, !.error = TRUE]

\* lines 298 and 300: {"error": ...}, 502
ErrorResp == [NoResp EXCEPT !.op = "yahoo_options", !.status = 502, !.error = TRUE]

\* nothing observed yet
NoObs ==
    [op |-> "none",
     flagBefore |-> FALSE,                     \* rh_logged_in when the handler began
     raised |-> FALSE,                         \* the provider's login/logout raised
     attempts |-> [p \in Providers |-> 0],     \* price fetches begun
     price |-> [p \in Providers |-> None],     \* the price the provider returned
     exps |-> [p \in Providers |-> "none"],    \* its expirations reply: empty, list
     failedAt |-> [p \in Providers |-> "none"],\* the call that raised
     dates |-> <<>>,                           \* the expirations last returned
     badField |-> FALSE,                       \* a row had a missing or NaN number
     rows |-> 0,                               \* contract rows returned so far
     fetches |-> 0,                            \* per-expiration chain fetches issued
                                               \* to the provider of `dates`
     offered |-> {},                           \* /api/options: the contracts whose
                                               \* market data was obtained
     args |-> DefaultArgs,                     \* /api/options: its query string
     today |-> 0,                              \* /api/options: its `today`
     dropped |-> {},                           \* /api/options: the published
                                               \* expirations the filter dropped
     unsorted |-> FALSE,                       \* /api/options: the contracts were
                                               \* collected out of order
     sessionAtRead |-> "none"]                 \* `session` when the flag was read

Unbound == <<>>

Init ==
    /\ r_present \in BOOLEAN
    /\ yf_present \in BOOLEAN
    \* lines 24-39: the startup login ran and succeeded, or it did not
    /\ rh_logged_in \in {FALSE, r_present}
    /\ session = IF rh_logged_in THEN "live" ELSE "none"
    /\ login_stands = rh_logged_in
    /\ login_pc = "idle"
    /\ logout_pc = "idle"
    /\ pc = "idle"
    /\ now = 0
    /\ today = 0
    /\ stock_price = None
    /\ expirations = Unbound
    /\ idx = 0
    /\ exp_timestamps = Unbound
    /\ all_options = Unbound
    /\ args = DefaultArgs
    /\ valid_dates = Unbound
    /\ options = Unbound
    /\ resp = NoResp
    /\ obs = NoObs

\* the locals of a request go out of scope with its response
Return(response) ==
    /\ resp' = response
    /\ pc' = "idle"
    /\ UNCHANGED now
    /\ today' = 0
    /\ stock_price' = None
    /\ expirations' = Unbound
    /\ idx' = 0
    /\ exp_timestamps' = Unbound
    /\ all_options' = Unbound

(***************************************************************************)
(* /api/login and /api/logout.                                             *)
(***************************************************************************)
\* lines 47-49
Status ==
    /\ pc = "idle"
    /\ resp' = [NoResp EXCEPT !.op = "status", !.status = 200,
                              !.logged_in = rh_logged_in]
    /\ obs' = [NoObs EXCEPT !.op = "status", !.flagBefore = rh_logged_in]
    /\ UNCHANGED <<globals, pc, now, locals, opt_locals>>

\* the frame of a session handler
SessionFrame == UNCHANGED <<r_present, yf_present, login_pc, logout_pc, pc, now,
                            locals, opt_locals>>

\* a login whose except clears the flag
LoginFailureLogsOut ==
    /\ pc = "idle"
    /\ SessionFrame
    /\ IF ~r_present
       THEN /\ resp' = [NoResp EXCEPT !.op = "login", !.status = 500, !.error = TRUE]
            /\ obs' = [NoObs EXCEPT !.op = "login", !.flagBefore = rh_logged_in]
            /\ UNCHANGED <<rh_logged_in, session, login_stands>>
       ELSE \E raises \in BOOLEAN :
            /\ obs' = [NoObs EXCEPT !.op = "login", !.flagBefore = rh_logged_in,
                                    !.raised = raises]
            /\ IF raises
               THEN /\ resp' = [NoResp EXCEPT !.op = "login", !.status = 401,
                                              !.error = TRUE]
                    /\ rh_logged_in' = FALSE
                    /\ UNCHANGED <<session, login_stands>>
               ELSE /\ rh_logged_in' = TRUE
                    /\ session' = "live"
                    /\ login_stands' = TRUE
                    /\ resp' = [NoResp EXCEPT !.op = "login", !.status = 200,
                                              !.success = TRUE]

\* lines 52-77
Login ==
    /\ pc = "idle"
    /\ SessionFrame
    /\ IF ~r_present
       THEN /\ resp' = [NoResp EXCEPT !.op = "login", !.status = 500, !.error = TRUE]
            /\ obs' = [NoObs EXCEPT !.op = "login", !.flagBefore = rh_logged_in]
            /\ UNCHANGED <<rh_logged_in, session, login_stands>>
       ELSE \E raises \in BOOLEAN :
            /\ obs' = [NoObs EXCEPT !.op = "login", !.flagBefore = rh_logged_in,
                                    !.raised = raises]
            /\ IF raises
               THEN /\ resp' = [NoResp EXCEPT !.op = "login", !.status = 401,
                                              !.error = TRUE]
                    /\ UNCHANGED <<rh_logged_in, session, login_stands>>
               ELSE /\ rh_logged_in' = TRUE
                    /\ session' = "live"
                    /\ login_stands' = TRUE
                    /\ resp' = [NoResp EXCEPT !.op = "login", !.status = 200,
                                              !.success = TRUE]

\* Logout with the flag cleared inside the try, after r.logout()
LogoutClearsInsideTry ==
    /\ pc = "idle"
    /\ SessionFrame
    /\ \E raises \in {FALSE, r_present} :
       /\ obs' = [NoObs EXCEPT !.op = "logout", !.flagBefore = rh_logged_in,
                               !.raised = raises]
       /\ rh_logged_in' = IF raises THEN rh_logged_in ELSE FALSE
    /\ session' = IF r_present THEN "none" ELSE session
    /\ login_stands' = FALSE
    /\ resp' = [NoResp EXCEPT !.op = "logout", !.status = 200, !.success = TRUE]

\* lines 303-312
Logout ==
    /\ pc = "idle"
    /\ SessionFrame
    \* lines 306-310: r.logout() is called if `r`, and a raise is swallowed
    /\ \E raises \in {FALSE, r_present} :
       obs' = [NoObs EXCEPT !.op = "logout", !.flagBefore = rh_logged_in,
                            !.raised = raises]
    /\ session' = IF r_present THEN "none" ELSE session
    /\ rh_logged_in' = FALSE
    /\ login_stands' = FALSE
    /\ resp' = [NoResp EXCEPT !.op = "logout", !.status = 200, !.success = TRUE]

(***************************************************************************)
(* GET /api/yahoo/options/<symbol>.                                        *)
(***************************************************************************)
\* the handler without its last line: nothing is returned when yfinance
\* was not imported
FallThroughWithoutReturn == IF yf_present THEN "yf_price" ELSE "fell_off"

\* lines 254-255 and 300: yfinance if it was imported, else no data source
FallThrough == IF yf_present THEN "yf_price" ELSE "no_source"

\* the except of the Robinhood branch retrying Robinhood once
RetryOnceAfterRhFailure(n) == IF n < 2 THEN "rh_price" ELSE FallThrough

\* lines 251-252: the except of the Robinhood branch prints and falls
\* through, however many times (n) Robinhood was tried
AfterRhFailure(n) == FallThrough

\* the except of the yfinance branch answering with the quote alone
\* once a price is in hand
YfExceptDegrades ==
    IF obs.price["yfinance"] # None
    THEN Result("yfinance", stock_price, <<>>, <<>>)
    ELSE ErrorResp

\* line 298: the response of the except of the yfinance branch
YfExceptResponse == ErrorResp

\* a group appended only when it has contracts
AppendGroupIfAny(groups, exp_ts, call_list) ==
    IF call_list = <<>> THEN groups
    ELSE Append(groups, [expirationDate |-> exp_ts, calls |-> call_list])

\* lines 238 and 284
AppendGroup(groups, exp_ts, call_list) ==
    Append(groups, [expirationDate |-> exp_ts, calls |-> call_list])

\* a loop that stops fetching chains after three of them
SkipsBeyondCap(exp_str, today_, fetched) ==
    ~InWindow(exp_str, today_) \/ fetched >= 3

\* lines 208-209 and 267-268: the `continue` of the loop over expirations,
\* which does not depend on how many chains were fetched already
Skips(exp_str, today_, fetched) == ~InWindow(exp_str, today_)

\* a branch that goes on from what the branch before it collected
KeepCollected(collected) == collected

\* lines 262-263 (and 202-203): `exp_timestamps = []`, `all_options = []`
StartEmpty(collected) == <<>>

\* line 196
RhStockPrice(price_list) ==
    IF price_list # <<>> /\ Truthy(price_list[1]) THEN PyFloat(price_list[1])
    ELSE Ok(None)

\* line 201
ExpirationDates(chains) == IF chains.k = "dict" THEN chains.dates ELSE <<>>

\* a market-data dict or a row with a missing or NaN number
BadMd(opt) ==
    /\ Truthy(opt.strike_price)
    /\ opt.md.k = "dict"
    /\ \E f \in MdFields : opt.md.d[f].k \in {"none", "nan"}
BadRow(row) == \E f \in YfFields : row[f].k \in {"none", "nan"}

\* yfinance asked first whenever it was imported
YfinanceFirst ==
    IF yf_present THEN "yf_price"
    ELSE IF rh_logged_in /\ r_present THEN "rh_price" ELSE "no_source"

\* line 193: `if rh_logged_in and r:`
FirstProvider == IF rh_logged_in /\ r_present THEN "rh_price" ELSE FallThrough

\* lines 187-193
Begin ==
    /\ pc = "idle"
    /\ \E t \in Nows : now' = t /\ today' = DateOf(t)
    /\ pc' = FirstProvider
    /\ resp' = NoResp
    /\ obs' = [NoObs EXCEPT !.op = "yahoo_options", !.flagBefore = rh_logged_in,
                            !.sessionAtRead = session]
    /\ UNCHANGED <<globals, opt_locals, stock_price, expirations, idx, exp_timestamps, all_options>>

\* an except that also takes the session for dead
RhFailInvalidates(stage, o) ==
    /\ obs' = [o EXCEPT !.failedAt["robinhood"] = stage]
    /\ pc' = AfterRhFailure(o.attempts["robinhood"])
    /\ rh_logged_in' = FALSE
    /\ UNCHANGED <<r_present, yf_present, session, login_stands, login_pc, logout_pc,
                   opt_locals, now, today, resp>>

\* the Robinhood branch leaves its try at the call named by `stage`
RhFail(stage, o) ==
    /\ obs' = [o EXCEPT !.failedAt["robinhood"] = stage]
    /\ pc' = AfterRhFailure(o.attempts["robinhood"])
    /\ UNCHANGED <<globals, opt_locals, now, today, resp>>

\* lines 195-198
RhPrice ==
    /\ pc = "rh_price"
    /\ LET o == [obs EXCEPT !.attempts["robinhood"] = @ + 1]
       IN  \/ /\ RhFail("price", o)
              /\ UNCHANGED <<stock_price, expirations, idx, exp_timestamps, all_options>>
           \/ \E price_list \in RhPriceReplies :
              LET sp == RhStockPrice(price_list)
              IN  /\ UNCHANGED <<expirations, idx, exp_timestamps, all_options>>
                  /\ IF ~sp.ok
                     THEN RhFail("price", o) /\ UNCHANGED stock_price
                     ELSE /\ stock_price' = sp.val
                          /\ IF ~Truthy(sp.val)
                             THEN RhFail("price", o)
                             ELSE /\ obs' = [o EXCEPT !.price["robinhood"] = sp.val]
                                  /\ pc' = "rh_chains"
                                  /\ UNCHANGED <<globals, opt_locals, now, today, resp>>

\* RhChains with a raise of get_chains taken as "no expirations"
RhChainsDegrades ==
    /\ pc = "rh_chains"
    /\ \E raises \in BOOLEAN, chains \in ChainsReplies :
       /\ expirations' = IF raises THEN <<>> ELSE ExpirationDates(chains)
       /\ idx' = 1
       /\ exp_timestamps' = <<>>
       /\ all_options' = <<>>
       /\ obs' = [obs EXCEPT !.dates = expirations',
                             !.failedAt["robinhood"] =
                                 IF raises THEN "expirations" ELSE @,
                             !.exps["robinhood"] =
                                 IF raises THEN @
                                 ELSE IF expirations' = <<>> THEN "empty" ELSE "list"]
       /\ pc' = "rh_loop"
       /\ UNCHANGED <<globals, opt_locals, now, today, stock_price, resp>>

\* lines 200-204
RhChains ==
    /\ pc = "rh_chains"
    /\ \/ /\ RhFail("expirations", obs)
          /\ UNCHANGED <<stock_price, expirations, idx, exp_timestamps, all_options>>
       \/ \E chains \in ChainsReplies :
          /\ expirations' = ExpirationDates(chains)
          /\ idx' = 1
          /\ exp_timestamps' = StartEmpty(exp_timestamps)
          /\ all_options' = StartEmpty(all_options)
          /\ obs' = [obs EXCEPT !.dates = expirations',
                                !.exps["robinhood"] =
                                    IF expirations' = <<>> THEN "empty" ELSE "list"]
          /\ pc' = "rh_loop"
          /\ UNCHANGED <<globals, opt_locals, now, today, stock_price, resp>>

\* lines 205-238: one iteration of the for loop
RhLoop ==
    /\ pc = "rh_loop"
    /\ idx <= Len(expirations)
    /\ LET exp_str == expirations[idx]
           exp_ts == TimestampOf(exp_str)
           fetching == [obs EXCEPT !.fetches = @ + 1]
       IN  IF Skips(exp_str, today, obs.fetches)
           THEN /\ idx' = idx + 1
                /\ UNCHANGED <<globals, opt_locals, pc, now, today, stock_price, expirations,
                               exp_timestamps, all_options, resp, obs>>
           ELSE /\ exp_timestamps' = Append(exp_timestamps, exp_ts)
                /\ UNCHANGED <<stock_price, expirations>>
                /\ \/ /\ RhFail("chain", fetching)
                      /\ UNCHANGED <<idx, all_options>>
                   \/ \E opts \in SeqsUpTo(RhRows, MaxRows - obs.rows) :
                      /\ all_options' =
                             AppendGroup(all_options, exp_ts, RhCallList(opts, exp_ts))
                      /\ idx' = idx + 1
                      /\ obs' = [fetching EXCEPT
                                   !.rows = @ + Len(opts),
                                   !.badField = @ \/ \E i \in 1..Len(opts) : BadMd(opts[i])]
                      /\ UNCHANGED <<globals, opt_locals, pc, now, today, resp>>

\* lines 240-250
RhRespond ==
    /\ pc = "rh_loop"
    /\ idx > Len(expirations)
    /\ Return(Result("robinhood", stock_price, exp_timestamps, all_options))
    /\ UNCHANGED <<globals, opt_locals, obs>>

\* lines 297-298: the yfinance branch leaves its try at the call named by `stage`
YfFail(stage, o) ==
    /\ obs' = [o EXCEPT !.failedAt["yfinance"] = stage]
    /\ Return(YfExceptResponse)
    /\ UNCHANGED <<globals, opt_locals>>

\* lines 257-259
YfPrice ==
    /\ pc = "yf_price"
    /\ LET o == [obs EXCEPT !.attempts["yfinance"] = @ + 1]
       IN  \/ YfFail("price", o)
           \/ \E last_price \in YfPriceReplies :
              LET sp == PyFloat(last_price)
              IN  IF ~sp.ok
                  THEN YfFail("price", o)
                  ELSE /\ stock_price' = sp.val
                       /\ obs' = [o EXCEPT !.price["yfinance"] = sp.val]
                       /\ pc' = "yf_expirations"
                       /\ UNCHANGED <<globals, opt_locals, now, today, expirations, idx,
                                      exp_timestamps, all_options, resp>>

\* lines 261-263
YfExpirations ==
    /\ pc = "yf_expirations"
    /\ \/ YfFail("expirations", obs)
       \/ \E ticker_options \in ExpLists :
          /\ expirations' = ticker_options
          /\ idx' = 1
          /\ exp_timestamps' = StartEmpty(exp_timestamps)
          /\ all_options' = StartEmpty(all_options)
          /\ obs' = [obs EXCEPT !.dates = ticker_options,
                                !.fetches = 0,
                                !.exps["yfinance"] =
                                    IF ticker_options = <<>> THEN "empty" ELSE "list"]
          /\ pc' = "yf_loop"
          /\ UNCHANGED <<globals, opt_locals, now, today, stock_price, resp>>

\* lines 264-284: one iteration of the for loop
YfLoop ==
    /\ pc = "yf_loop"
    /\ idx <= Len(expirations)
    /\ LET exp_str == expirations[idx]
           exp_ts == TimestampOf(exp_str)
           fetching == [obs EXCEPT !.fetches = @ + 1]
       IN  IF Skips(exp_str, today, obs.fetches)
           THEN /\ idx' = idx + 1
                /\ UNCHANGED <<globals, opt_locals, pc, now, today, stock_price, expirations,
                               exp_timestamps, all_options, resp, obs>>
           ELSE \/ YfFail("chain", fetching)
                \/ \E rows \in SeqsUpTo(YfRows, MaxRows - obs.rows) :
                   LET call_list == YfCallList(rows, exp_ts)
                       o == [fetching EXCEPT
                               !.rows = @ + Len(rows),
                               !.badField = @ \/ \E i \in 1..Len(rows) : BadRow(rows[i])]
                   IN  IF ~call_list.ok
                       THEN YfFail("parse", o)
                       ELSE /\ exp_timestamps' = Append(exp_timestamps, exp_ts)
                            /\ all_options' =
                                   AppendGroup(all_options, exp_ts, call_list.val)
                            /\ idx' = idx + 1
                            /\ obs' = o
                            /\ UNCHANGED <<globals, opt_locals, pc, now, today, stock_price,
                                           expirations, resp>>

\* lines 286-296
YfRespond ==
    /\ pc = "yf_loop"
    /\ idx > Len(expirations)
    /\ Return(Result("yfinance", stock_price, exp_timestamps, all_options))
    /\ UNCHANGED <<globals, opt_locals, obs>>

\* line 300
NoSource ==
    /\ pc = "no_source"
    /\ Return(ErrorResp)
    /\ UNCHANGED <<globals, opt_locals, obs>>

(***************************************************************************)
(* GET /api/quote/<symbol>.                                                *)
(***************************************************************************)
\* line 85
QuoteResp(price) ==
    [NoResp EXCEPT !.op = "quote", !.status = 200, !.success = TRUE, !.price = price]
\* line 87
QuoteError == [NoResp EXCEPT !.op = "quote", !.status = 500, !.error = TRUE]

\* a handler that refuses to ask the library while the flag is down
GetQuoteRequiresLogin ==
    /\ pc = "idle"
    /\ UNCHANGED <<globals, pc, now, locals, opt_locals>>
    /\ \E raises \in {~r_present, TRUE}, price_list \in RhPriceReplies :
       LET sp == RhStockPrice(price_list)
       IN  /\ obs' = [NoObs EXCEPT !.op = "quote", !.flagBefore = rh_logged_in,
                                   !.raised = rh_logged_in /\ (raises \/ ~sp.ok)]
           /\ resp' = IF ~rh_logged_in \/ raises \/ ~sp.ok THEN QuoteError
                      ELSE QuoteResp(sp.val)

\* lines 80-87: the library is asked whatever the flag says; without the
\* library `r.stocks` raises
GetQuote ==
    /\ pc = "idle"
    /\ UNCHANGED <<globals, pc, now, locals, opt_locals>>
    /\ \E raises \in {~r_present, TRUE}, price_list \in RhPriceReplies :
       LET sp == RhStockPrice(price_list)
       IN  /\ obs' = [NoObs EXCEPT !.op = "quote", !.flagBefore = rh_logged_in,
                                   !.raised = raises \/ ~sp.ok]
           /\ resp' = IF raises \/ ~sp.ok THEN QuoteError ELSE QuoteResp(sp.val)

(***************************************************************************)
(* GET /api/options/<symbol>.                                              *)
(***************************************************************************)
\* lines 179-181
OptionsResp(price, contracts) ==
    [NoResp EXCEPT !.op = "options", !.status = 200, !.success = TRUE,
                   !.price = price, !.options = contracts]
\* line 106
NoChainResp == [NoResp EXCEPT !.op = "options", !.status = 404, !.error = TRUE]
\* line 183
OptionsError == [NoResp EXCEPT !.op = "options", !.status = 500, !.error = TRUE]

\* the locals of get_options go out of scope with its response
OptReturn(response) ==
    /\ resp' = response
    /\ pc' = "idle"
    /\ today' = 0
    /\ stock_price' = None
    /\ idx' = 0
    /\ args' = DefaultArgs
    /\ valid_dates' = Unbound
    /\ options' = Unbound
    /\ UNCHANGED <<globals, now, expirations, exp_timestamps, all_options>>

\* lines 182-183: a library call raised inside the try
OptFail ==
    /\ obs' = [obs EXCEPT !.raised = TRUE]
    /\ OptReturn(OptionsError)

\* lines 92-96: the query string
OptBegin ==
    /\ pc = "idle"
    /\ \E a \in ArgsSets : args' = a
    /\ pc' = "opt_price"
    /\ resp' = NoResp
    /\ obs' = [NoObs EXCEPT !.op = "options", !.flagBefore = rh_logged_in,
                            !.args = args']
    /\ now' = 0
    /\ UNCHANGED <<globals, locals, valid_dates, options>>

\* lines 100-101
OptPrice ==
    /\ pc = "opt_price"
    /\ \E raises \in {~r_present, TRUE}, price_list \in RhPriceReplies :
       LET sp == RhStockPrice(price_list)
       IN  IF raises \/ ~sp.ok
           THEN OptFail
           ELSE /\ stock_price' = sp.val
                /\ pc' = "opt_chains"
                /\ UNCHANGED <<globals, now, today, expirations, idx, exp_timestamps,
                               all_options, opt_locals, resp, obs>>

\* lines 104-121
OptChains ==
    /\ pc = "opt_chains"
    /\ \/ OptFail
       \/ \E chains \in OptChainsReplies :
          IF chains.k # "dict"
          THEN OptReturn(NoChainResp) /\ UNCHANGED obs
          ELSE /\ \E t \in Nows : today' = DateOf(t)
               /\ valid_dates' = ValidDates(ExpirationDates(chains), today', args)
               /\ options' = <<>>
               /\ idx' = 1
               /\ obs' = [obs EXCEPT
                            !.today = today',
                            !.dropped =
                                {chains.dates[i] : i \in 1..Len(chains.dates)}
                                    \ {valid_dates'[j] : j \in 1..Len(valid_dates')}]
               /\ pc' = "opt_loop"
               /\ UNCHANGED <<globals, now, args, stock_price, expirations,
                              exp_timestamps, all_options, resp>>

\* the contracts of one find_options_by_expiration reply whose market data
\* was obtained, each with the delta it carried
Offered(opts, exp_date) ==
    {[exp |-> exp_date, strike |-> opts[i].strike_price, delta |-> opts[i].md.d["delta"]] :
        i \in {j \in 1..Len(opts) : /\ Truthy(opts[j].strike_price)
                                    /\ opts[j].md.k \in {"dict", "nested"}}}

\* lines 122-175: one iteration of the outer for loop
OptLoop ==
    /\ pc = "opt_loop"
    /\ idx <= Len(valid_dates)
    /\ LET exp_date == valid_dates[idx]
       IN  \/ OptFail
           \/ \E opts \in SeqsUpTo(OptRows, MaxOpts - obs.rows) :
              /\ options' = options \o OptContracts(opts, exp_date, today, args)
              /\ idx' = idx + 1
              /\ obs' = [obs EXCEPT !.rows = @ + Len(opts),
                                    !.offered = @ \cup Offered(opts, exp_date)]
              /\ UNCHANGED <<globals, pc, now, today, stock_price, expirations,
                             exp_timestamps, all_options, args, valid_dates, resp>>

\* lines 177-181
OptRespond ==
    /\ pc = "opt_loop"
    /\ idx > Len(valid_dates)
    /\ OptReturn(OptionsResp(stock_price, SortOptions(options)))
    /\ obs' = [obs EXCEPT !.unsorted =
                   \E i \in 1..(Len(options) - 1) :
                       \/ options[i].exp > options[i + 1].exp
                       \/ /\ options[i].exp = options[i + 1].exp
                          /\ options[i].strike.v > options[i + 1].strike.v]

Next ==
    \/ Status
    \/ Login
    \/ Logout
    \/ Begin
    \/ RhPrice
    \/ RhChains
    \/ RhLoop
    \/ RhRespond
    \/ YfPrice
    \/ YfExpirations
    \/ YfLoop
    \/ YfRespond
    \/ NoSource
    \/ GetQuote
    \/ OptBegin
    \/ OptPrice
    \/ OptChains
    \/ OptLoop
    \/ OptRespond

Spec == Init /\ [][Next]_vars

\* a step of the yahoo_options request in flight
YahooStep ==
    \/ RhPrice
    \/ RhChains
    \/ RhLoop
    \/ RhRespond
    \/ YfPrice
    \/ YfExpirations
    \/ YfLoop
    \/ YfRespond
    \/ NoSource

\* the thread that serves a request keeps running, and each provider call
\* it makes returns or raises
FairSpec == Spec /\ WF_vars(YahooStep)

(***************************************************************************)
(* Requests served side by side.  app.run() serves each request on a       *)
(* thread of its own and the handlers take no lock, so a /api/login, a     *)
(* /api/logout and a yahoo_options request interleave at their statements. *)
(* Here the session handlers are split where they call the library.        *)
(***************************************************************************)
\* the frame of a step of a session handler running beside a data request
StepFrame == UNCHANGED <<r_present, yf_present, pc, now, locals, opt_locals, obs>>

\* lines 52-73: up to the return of r.login(), or the response that ends
\* the handler without one
LoginCall ==
    /\ login_pc = "idle"
    /\ StepFrame
    /\ UNCHANGED <<rh_logged_in, login_stands, logout_pc>>
    /\ IF ~r_present
       THEN /\ resp' = [NoResp EXCEPT !.op = "login", !.status = 500, !.error = TRUE]
            /\ UNCHANGED <<session, login_pc>>
       ELSE \E raises \in BOOLEAN :
            IF raises
            THEN /\ resp' = [NoResp EXCEPT !.op = "login", !.status = 401,
                                           !.error = TRUE]
                 /\ UNCHANGED <<session, login_pc>>
            ELSE /\ session' = "live"
                 /\ login_pc' = "called"
                 /\ UNCHANGED resp

\* lines 74-75
LoginPublish ==
    /\ login_pc = "called"
    /\ StepFrame
    /\ rh_logged_in' = TRUE
    /\ login_stands' = TRUE
    /\ login_pc' = "idle"
    /\ resp' = [NoResp EXCEPT !.op = "login", !.status = 200, !.success = TRUE]
    /\ UNCHANGED <<session, logout_pc>>

\* lines 303-310: r.logout() is called if `r`, and a raise is swallowed
LogoutCall ==
    /\ logout_pc = "idle"
    /\ StepFrame
    /\ session' = IF r_present THEN "none" ELSE session
    /\ logout_pc' = "called"
    /\ UNCHANGED <<rh_logged_in, login_stands, login_pc, resp>>

\* lines 311-312
LogoutClear ==
    /\ logout_pc = "called"
    /\ StepFrame
    /\ rh_logged_in' = FALSE
    /\ login_stands' = FALSE
    /\ logout_pc' = "idle"
    /\ resp' = [NoResp EXCEPT !.op = "logout", !.status = 200, !.success = TRUE]
    /\ UNCHANGED <<session, login_pc>>

NextConc ==
    \/ LoginCall
    \/ LoginPublish
    \/ LogoutCall
    \/ LogoutClear
    \/ Begin
    \/ RhPrice
    \/ RhChains
    \/ RhLoop
    \/ RhRespond
    \/ YfPrice
    \/ YfExpirations
    \/ YfLoop
    \/ YfRespond
    \/ NoSource

SpecConc == Init /\ [][NextConc]_vars

(***************************************************************************)
(* Properties.  `Done` holds from the response of a yahoo_options request  *)
(* until the next handler starts; obs then describes that request.         *)
(***************************************************************************)
Done == resp.op = "yahoo_options"
Failed(p) == obs.failedAt[p] # "none"
GotPrice(p) == obs.price[p] # None

\* the midnight timestamps of a list of days
Timestamps(E) == [i \in 1..Len(E) |-> E[i] * 86400]

\* C1: when Robinhood was tried and failed and yfinance returned its price,
\* its expirations and every chain asked of it, the response is a 200
\* tagged "yfinance".
C1_FallbackTaggedYfinance ==
    (/\ Done
     /\ Failed("robinhood")
     /\ GotPrice("yfinance")
     /\ obs.exps["yfinance"] # "none"
     /\ obs.failedAt["yfinance"] \notin {"price", "expirations", "chain"})
        => resp.status = 200 /\ resp.source = "yfinance"

\* C2 as stated: a provider that failed was tried exactly twice.
C2_FailingProviderTriedTwice ==
    Done => \A p \in Providers : Failed(p) => obs.attempts[p] = 2

\* C2 amended: no provider is tried more than once in a request, a provider
\* that failed was tried exactly once, and the request leaves the login
\* flag as it found it.
C2_FailingProviderTriedOnce ==
    obs.op = "yahoo_options" =>
        /\ \A p \in Providers :
              /\ obs.attempts[p] <= 1
              /\ Failed(p) => obs.attempts[p] = 1
        /\ rh_logged_in = obs.flagBefore

C2_Witness ==
    /\ Done
    /\ Failed("robinhood")
    /\ obs.attempts["robinhood"] = 1
    /\ resp.source = "yfinance"

\* C3: when a provider returned a price and then an empty expiration list,
\* the response is a 200 from that provider with that price and with
\* `options` and `expirationDates` both empty.
C3_DegradedOnEmptyExpirations ==
    \A p \in Providers :
        (Done /\ obs.exps[p] = "empty") =>
            /\ resp.status = 200
            /\ resp.source = p
            /\ GotPrice(p)
            /\ resp.price = obs.price[p]
            /\ resp.expirationDates = <<>>
            /\ resp.options = <<>>

C3_Witness ==
    /\ Done
    /\ Failed("robinhood")
    /\ obs.exps["yfinance"] = "empty"
    /\ resp.price = Num(151)

\* C4 as stated: when a provider's expirations lookup raises after its
\* price, the response is a 200 from that provider with that price and
\* empty lists.
C4_DegradedOnExpirationsError ==
    \A p \in Providers :
        (Done /\ obs.failedAt[p] = "expirations") =>
            /\ resp.status = 200
            /\ resp.source = p
            /\ resp.price = obs.price[p]
            /\ resp.expirationDates = <<>>
            /\ resp.options = <<>>

\* C4 amended: when a provider's expirations lookup raises after its price,
\* that price is dropped: after Robinhood the request goes on to yfinance
\* (to a 502 when yfinance is absent), after yfinance it ends with a 502;
\* no response is tagged with that provider.
C4_ExpirationsErrorAbandonsProvider ==
    \A p \in Providers :
        (Done /\ obs.failedAt[p] = "expirations") =>
            /\ GotPrice(p)
            /\ resp.source # p
            /\ p = "yfinance" => resp.status = 502
            /\ p = "robinhood" =>
                  IF yf_present THEN obs.attempts["yfinance"] = 1
                  ELSE resp.status = 502

C4_Witness ==
    /\ Done
    /\ obs.failedAt["robinhood"] = "expirations"
    /\ resp.status = 200
    /\ resp.source = "yfinance"

\* C5 as stated: the response is a 502 exactly when no provider produced a
\* price.
C5_FailedIffNoPrice ==
    Done => (resp.status = 502 <=> \A p \in Providers : ~GotPrice(p))

\* C5 amended: a request in which no provider produced a price ends with a
\* 502, and a 200 carries the price its source provider produced; but a 502
\* is sent exactly when Robinhood was skipped or failed and yfinance is
\* absent or raised anywhere in its branch, with or without a price.
C5_FailedIffLastProviderFails ==
    Done =>
        /\ (\A p \in Providers : ~GotPrice(p)) => resp.status = 502
        /\ resp.status \in {200, 502}
        /\ resp.status = 200 =>
              /\ resp.source \in Providers
              /\ GotPrice(resp.source)
              /\ resp.price = obs.price[resp.source]
        /\ resp.status = 502 <=>
              /\ obs.attempts["robinhood"] = 0 \/ Failed("robinhood")
              /\ ~yf_present \/ Failed("yfinance")

C5_Witness ==
    /\ Done
    /\ resp.status = 502
    /\ GotPrice("yfinance")
    /\ GotPrice("robinhood")

\* C6 as stated: when the chain fetch of an in-window expiration raises,
\* the response is still a 200 from the same provider.
C6_ChainFailureTolerated ==
    \A p \in Providers :
        (Done /\ obs.failedAt[p] = "chain") => resp.status = 200 /\ resp.source = p

\* C6 amended: a chain fetch that raises ends its provider's whole attempt:
\* after Robinhood the request goes on to yfinance and no Robinhood response
\* is sent, after yfinance it ends with a 502; so a 200 never holds a part
\* of the groups, it has one group for every in-window expiration.
C6_ChainFailureAbandonsProvider ==
    /\ \A p \in Providers :
          (Done /\ obs.failedAt[p] = "chain") =>
              /\ resp.source # p
              /\ p = "yfinance" => resp.status = 502
    /\ (Done /\ resp.status = 200) =>
          /\ Len(resp.options) = Len(resp.expirationDates)
          /\ \A p \in Providers : resp.source = p => ~Failed(p)

C6_Witness ==
    /\ Done
    /\ obs.failedAt["yfinance"] = "chain"
    /\ obs.rows > 0
    /\ resp.status = 502

C8_RealValuedWindow ==
    (Done /\ resp.status = 200) =>
        resp.expirationDates =
            Timestamps(SelectSeq(obs.dates,
                                 LAMBDA d : /\ 20 * 86400 <= d * 86400 - now
                                            /\ d * 86400 - now <= 60 * 86400))

\* C8 amended: the returned `expirationDates` are exactly the elements of
\* the provider's list whose date lies 20 to 60 calendar days (both
\* inclusive) after the date of the request, whatever the time of day, in
\* the list's order.
C8_CalendarDayWindow ==
    (Done /\ resp.status = 200) =>
        resp.expirationDates =
            Timestamps(SelectSeq(obs.dates,
                                 LAMBDA d : /\ 20 <= d - now \div 86400
                                            /\ d - now \div 86400 <= 60))

C8_Witness ==
    /\ Done
    /\ resp.status = 200
    /\ now % 86400 # 0
    /\ obs.dates = <<160, 120>>
    /\ resp.expirationDates = <<160 * 86400, 120 * 86400>>

\* C9: a contract row with a missing or NaN number never turns the request
\* into an error, and no contract of a 200 response has a NaN field.
C9_NumbersNormalised ==
    Done =>
        /\ \A p \in Providers : obs.failedAt[p] # "parse"
        /\ \A i \in 1..Len(resp.options) :
              \A j \in 1..Len(resp.options[i].calls) :
                  LET c == resp.options[i].calls[j]
                  IN  \A f \in {"strike", "bid", "ask", "volume", "openInterest",
                                "impliedVolatility"} : c[f].k = "num"

\* C10: every /api/logout answers {"success": true} with status 200 and
\* leaves the login flag false, whether or not r.logout() raised.
C10_LogoutAlwaysSucceeds ==
    resp.op = "logout" =>
        /\ resp.status = 200
        /\ resp.success
        /\ ~resp.error
        /\ ~rh_logged_in

C10_Witness ==
    /\ resp.op = "logout"
    /\ obs.raised
    /\ obs.flagBefore
    /\ ~rh_logged_in

\* C11: while the logged-in flag is false every operation of the broker
\* adapter fails without returning broker data: /api/quote and /api/options
\* answer with success = false and carry no price and no contract, and no
\* yahoo_options response is tagged "robinhood".
C11_UnauthenticatedRequestsFail ==
    /\ (resp.op \in {"quote", "options"} /\ ~obs.flagBefore) =>
           (~resp.success /\ resp.price = None /\ resp.options = <<>>)
    /\ (Done /\ ~obs.flagBefore) => resp.source # "robinhood"

\* C11 (as the code has it): only yahoo_options consults the flag.  A
\* yahoo_options request that read the flag as false never calls Robinhood
\* and is never tagged "robinhood"; /api/quote and /api/options answer 500
\* exactly when their try block raised, whatever the flag says.
C11_OnlyYahooConsultsFlag ==
    /\ (Done /\ ~obs.flagBefore) =>
           (obs.attempts["robinhood"] = 0 /\ resp.source # "robinhood")
    /\ resp.op \in {"quote", "options"} =>
           /\ (resp.status = 500) = obs.raised
           /\ resp.status \in {200, 404, 500}
           /\ resp.success = (resp.status = 200)

\* a quote is served from the library while the flag is false
C11_Witness ==
    /\ resp.op = "quote"
    /\ ~obs.flagBefore
    /\ resp.status = 200
    /\ resp.price = [k |-> "num", v |-> 150]

\* C12: in one yahoo_options request the number of per-expiration chain
\* fetches issued to a provider never exceeds a fixed cap (eight, the
\* largest cap the design allows), however many expirations the provider
\* publishes inside the window.
C12_FanOutCapped == obs.op = "yahoo_options" => obs.fetches <= 8

\* C12 (as the code has it): there is no cap.  A provider asked for chains
\* is asked once per expiration inside the window, up to the first fetch
\* that raises; the provider that answers was asked for every one of them.
C12_OneFetchPerWindowExpiration ==
    LET inside == SelectSeq(obs.dates, LAMBDA d : 20 <= d - now \div 86400
                                                  /\ d - now \div 86400 <= 60)
    IN  obs.op = "yahoo_options" =>
          /\ obs.fetches <= Len(inside)
          /\ (Done /\ resp.status = 200) => obs.fetches = Len(inside)

\* the provider published nine expirations inside the window and every
\* one of them was fetched
C12_Witness ==
    /\ Done
    /\ resp.status = 200
    /\ Len(obs.dates) = 9
    /\ obs.fetches = 9

\* C13: a contract is in the list /api/options returns if and only if its
\* expiration passed the DTE filter, its market data was obtained with a
\* delta, and min_delta <= |delta| <= max_delta, both ends included.
C13_DeltaBandFilter ==
    LET a == obs.args
        Abs(n) == IF n < 0 THEN 0 - n ELSE n
        inBand == {o \in obs.offered :
                     /\ o.delta.k = "str"
                     /\ a.min_delta <= Abs(o.delta.v)
                     /\ Abs(o.delta.v) <= a.max_delta}
        expected == {[exp |-> o.exp, strike |-> o.strike.v, delta |-> Abs(o.delta.v)] :
                        o \in inBand}
        returned == {[exp |-> resp.options[i].exp, strike |-> resp.options[i].strike.v,
                      delta |-> resp.options[i].delta.v] : i \in 1..Len(resp.options)}
    IN  (resp.op = "options" /\ resp.status = 200) =>
          /\ returned = expected
          /\ \A c \in returned : /\ obs.today + a.min_dte <= c.exp
                                  /\ c.exp <= obs.today + a.max_dte
          /\ \A d \in obs.dropped : \/ d < obs.today + a.min_dte
                                     \/ d > obs.today + a.max_dte

\* contracts on both edges of the band were kept while one just outside
\* it or without a delta was left out
C13_Witness ==
    /\ resp.op = "options"
    /\ resp.status = 200
    /\ \E i \in 1..Len(resp.options) : resp.options[i].delta.v \in {10, 30}
    /\ \E o \in obs.offered : o.delta.k = "none" \/ o.delta.v \in {9, 31}
    /\ obs.dropped # {}

\* C14: the list /api/options returns is sorted ascending by (expiration
\* date, strike): of two consecutive entries the first has the earlier
\* expiration, or the same expiration and a strike that is not greater.
C14_SortedByExpThenStrike ==
    (resp.op = "options" /\ resp.status = 200) =>
        \A i \in 1..(Len(resp.options) - 1) :
            \/ resp.options[i].exp < resp.options[i + 1].exp
            \/ /\ resp.options[i].exp = resp.options[i + 1].exp
               /\ resp.options[i].strike.v <= resp.options[i + 1].strike.v

\* the provider returned two contracts out of order
C14_Witness ==
    /\ resp.op = "options"
    /\ resp.status = 200
    /\ Len(resp.options) >= 2
    /\ obs.unsorted

\* C15: within one yahoo_options request the providers are tried in
\* priority order: Robinhood only when the flag was up and the library is
\* there; yfinance only after Robinhood was skipped or was tried and
\* failed; and once Robinhood has answered yfinance is not contacted.
C15_PriorityOrder ==
    obs.op = "yahoo_options" =>
      /\ obs.attempts["robinhood"] > 0 => (obs.flagBefore /\ r_present)
      /\ obs.attempts["yfinance"] > 0 =>
            \/ obs.attempts["robinhood"] = 0 /\ ~(obs.flagBefore /\ r_present)
            \/ obs.attempts["robinhood"] > 0 /\ Failed("robinhood")
      /\ pc \in {"rh_price", "rh_chains", "rh_loop"} => obs.attempts["yfinance"] = 0
      /\ (Done /\ resp.source = "robinhood") => obs.attempts["yfinance"] = 0

\* Robinhood answered and yfinance, though imported, was not contacted
C15_Witness ==
    /\ Done
    /\ resp.source = "robinhood"
    /\ yf_present
    /\ obs.attempts["yfinance"] = 0

\* C16: every yahoo_options request ends with exactly one response, a 200
\* result tagged with its provider (with or without options) or a 502
\* carrying an error, whatever the providers return or raise.
C16_RequestTerminates ==
    /\ [](Done =>
            /\ resp.status \in {200, 502}
            /\ resp.status = 200 => (~resp.error /\ resp.source \in Providers)
            /\ resp.status = 502 => (resp.error /\ resp.source = "none"
                                      /\ resp.options = <<>>))
    /\ (pc \in {"rh_price", "rh_chains", "rh_loop", "yf_price", "yf_expirations",
                 "yf_loop", "no_source"}) ~> (pc = "idle" /\ Done)

\* Robinhood failed, yfinance was not imported, and the request ended
\* with the 502 of the last line
C16_Witness ==
    /\ Done
    /\ pc = "idle"
    /\ resp.status = 502
    /\ Failed("robinhood")
    /\ ~yf_present

\* C17: under any interleaving of /api/login, /api/logout and yahoo_options
\* requests, a request that reads the flag as true does so while the
\* provider session is established: r.login() has returned and r.logout()
\* has not been called since.
C17_FlagTrueMeansSessionLive ==
    (obs.op = "yahoo_options" /\ obs.flagBefore) => obs.sessionAtRead = "live"

\* C18: after any sequence of completed requests the flag, as /api/status
\* reports it, is true exactly when a login (at startup or by /api/login)
\* has succeeded and no /api/logout has completed since; a data request
\* leaves the flag as it found it, also when its Robinhood branch fails.
C18_FlagTracksSession ==
    /\ rh_logged_in = login_stands
    /\ resp.op = "status" => resp.logged_in = login_stands
    /\ obs.op \in {"yahoo_options", "quote", "options", "status"} =>
           rh_logged_in = obs.flagBefore

\* the Robinhood branch of a request failed and the process is still
\* logged in
C18_Witness ==
    /\ Done
    /\ Failed("robinhood")
    /\ rh_logged_in
    /\ login_stands

\* C19: a /api/login whose provider login raises answers 401 with
\* success = false and leaves the flag as it was before the request.
C19_FailedLoginKeepsFlag ==
    (resp.op = "login" /\ obs.raised) =>
        /\ resp.status = 401
        /\ ~resp.success
        /\ resp.error
        /\ rh_logged_in = obs.flagBefore

\* a re-login failed in a process that was logged in, and it still is
C19_Witness ==
    /\ resp.op = "login"
    /\ obs.raised
    /\ obs.flagBefore
    /\ rh_logged_in

\* C20: in every 200 response of yahoo_options the price, the expiration
\* dates and the contracts all come from the provider named by `source`;
\* what Robinhood collected before it failed is not in a response tagged
\* "yfinance".
C20_SingleProviderProvenance ==
    LET p == resp.source
        inside == SelectSeq(obs.dates, LAMBDA d : 20 <= d - now \div 86400
                                                  /\ d - now \div 86400 <= 60)
        strikeOf == [q \in Providers |-> IF q = "robinhood" THEN 100 ELSE 5]
    IN  (Done /\ resp.status = 200) =>
          /\ resp.price = obs.price[p]
          /\ resp.expirationDates = [i \in 1..Len(inside) |-> inside[i] * 86400]
          /\ Len(resp.options) = Len(inside)
          /\ \A i \in 1..Len(resp.options) :
                /\ resp.options[i].expirationDate = inside[i] * 86400
                /\ \A j \in 1..Len(resp.options[i].calls) :
                      resp.options[i].calls[j].strike.v = strikeOf[p]

\* Robinhood had returned its price and begun to collect expirations when
\* a chain fetch raised; yfinance then answered with dates of its own
C20_Witness ==
    /\ Done
    /\ resp.status = 200
    /\ resp.source = "yfinance"
    /\ obs.failedAt["robinhood"] = "chain"
    /\ obs.price["robinhood"] # None
    /\ resp.expirationDates # <<>>

====
